---- MODULE Spec2Model ----
(***************************************************************************)
(* Model of semgrep's ContentHashStore (semgrep/content_hash_store.py):    *)
(* the in-memory two-level cache pattern hash -> file hash -> contents,    *)
(* its pickle image on disk, and the git/md5 file identity resolver.       *)
(***************************************************************************)
EXTENDS Integers, Sequences, FiniteSets, TLC

(***************************************************************************)
(* Bounds of the model.                                                    *)
(***************************************************************************)
\* number of store operations one behaviour performs
MaxSteps == 4
\* number of store operations the two sessions of SpecLWW perform together
MaxSessionSteps == 6
\* longest list of file names handed to git_hashes
MaxLen == 3
\* largest block size tried in place of the source's 128*64
MaxBatch == 2
\* calls made on the timing aggregator
MaxCalls == 2

(***************************************************************************)
(* Small input sets.                                                       *)
(***************************************************************************)
\* ContentHashStore instances; s1 and s2 live in one interpreter (process A),
\* s3 in another (process B)
Insts == {"s1", "s2", "s3"}
Procs == {"A", "B"}
PatternIds == {"p1", "p2"}
FileIds == {"f1", "f2"}
\* "lam" stands for a payload pickle cannot serialise (contents: Any)
Payloads == {"v1", "v2", "lam"}
Unpicklable == {"lam"}

\* repositories and rule ids of the timing reports
Repos == {"A", "B"}
RuleIds == {"r1", "r2"}

Proc(i) == IF i = "s3" THEN "B" ELSE "A"

\* Python's None, True and False as results of a call
None == "None"
True == "True"
False == "False"

VARIABLES
  classMap,    \* per interpreter: the class attribute ContentHashStore.semgrep_md5_hash
  instMap,     \* per instance: its own semgrep_md5_hash attribute, NoAttr before load()
  dirExists,   \* whether MD5_CACHE_DIR exists
  blob,        \* content of cache.pickle: NoFile, Truncated or a pickle image
  flushedMap,  \* history: the mapping the last completed flush() serialised
  ret,         \* the last call: operation, receiver, arguments, result, exception,
               \* and whether it is a flush() directly after a flush() of its receiver
  steps,       \* number of calls made
  phase,       \* per instance: how far its session (load, save_entry..., flush) has come
  fnames,      \* the list of file names given to git_hashes
  tracked,     \* the file names git finds in HEAD; the others exist on disk only
  gitMode,     \* "ok", or how every git call fails: "cpe" (non-zero exit), "oserror"
  batch,       \* per git_hashes generator: its block size
  gen,         \* per git_hashes generator: names left, pairs yielded, status, counters
  single,      \* the last git_hash call: name, result, exception
  repo_to_times_per_rule,         \* per repository: the ordered dict rule id -> total time
  rules_to_total_time_num_files,  \* ordered dict rule id -> TotalTimeAndTargetNum
  output_file,  \* the document print_repo_to_times_per_rule wrote last
  aggRet,       \* the last aggregator call: operation, repository, exception
  aggCalls,     \* number of aggregator calls made
  seen,         \* history: per rule id the sum of its durations in all processed
                \* reports, the number of the positive ones and of the zero ones
  repoSeen      \* history: per repository the sum of the durations of each rule of
                \* its last report

storeVars == <<classMap, instMap, dirExists, blob, flushedMap, ret, steps>>
resolverVars == <<fnames, tracked, gitMode, batch, gen, single>>
aggVars == <<repo_to_times_per_rule, rules_to_total_time_num_files, output_file,
             aggRet, aggCalls, seen, repoSeen>>
vars == <<classMap, instMap, dirExists, blob, flushedMap, ret, steps, phase,
          fnames, tracked, gitMode, batch, gen, single,
          repo_to_times_per_rule, rules_to_total_time_num_files, output_file,
          aggRet, aggCalls, seen, repoSeen>>

(***************************************************************************)
(* The two-level mapping.                                                  *)
(***************************************************************************)
\* default_dict_dict_of_list(): an empty mapping whose missing keys are created on access
EmptyMap == << >>

\* the mapping after evaluating m[p] on a defaultdict: a missing key is inserted
\* with an empty inner mapping
DefaultGet(m, p) == IF p \in DOMAIN m THEN m ELSE (p :> EmptyMap) @@ m

\* the (pattern hash, file hash, contents) triples of a mapping
Pairs(m) == UNION {{<<p, f, m[p][f]>> : f \in DOMAIN m[p]} : p \in DOMAIN m}

\* self.semgrep_md5_hash: the instance attribute when load() has set one,
\* the class attribute shared by the interpreter's instances otherwise
SelfMap(i) == IF instMap[i].set THEN instMap[i].map ELSE classMap[Proc(i)]

\* in-place mutation of the dict object self.semgrep_md5_hash refers to
Mutate(i, m) ==
  IF instMap[i].set
  THEN /\ instMap' = [instMap EXCEPT ![i].map = m]
       /\ UNCHANGED classMap
  ELSE /\ classMap' = [classMap EXCEPT ![Proc(i)] = m]
       /\ UNCHANGED instMap

\* value of contains(file_hash, patterns_hash) on mapping m
ContainsIn(m, f, p) == f \in DOMAIN DefaultGet(m, p)[p]

\* _get without its contains() guard: the inner defaultdict answers with its default
GetInUnguarded(m, f, p) ==
  IF p \in DOMAIN m /\ f \in DOMAIN m[p] THEN m[p][f] ELSE "[]"

\* value of _get(file_hash, patterns_hash) on mapping m
GetIn(m, f, p) == IF ContainsIn(m, f, p) THEN DefaultGet(m, p)[p][f] ELSE None

\* save_entry that keeps an entry already present (setdefault instead of assignment)
SaveInKeepFirst(m, f, p, v) ==
  LET m2 == DefaultGet(m, p)
  IN  [m2 EXCEPT ![p] = m2[p] @@ (f :> v)]

\* save_entry that replaces the inner mapping of the pattern hash by the new entry
SaveInReplaceInner(m, f, p, v) ==
  LET m2 == DefaultGet(m, p)
  IN  [m2 EXCEPT ![p] = (f :> v)]

\* save_entry keyed by the file hash alone: the entry is written under every pattern hash
SaveInEveryPattern(m, f, p, v) ==
  LET m2 == DefaultGet(m, p)
  IN  [q \in DOMAIN m2 |-> (f :> v) @@ m2[q]]

\* the mapping after self.semgrep_md5_hash[patterns_hash][file_hash] = contents
SaveIn(m, f, p, v) ==
  LET m2 == DefaultGet(m, p)
  IN  [m2 EXCEPT ![p] = (f :> v) @@ m2[p]]

(***************************************************************************)
(* pickle.dump / pickle.load of the mapping.                               *)
(***************************************************************************)
\* whether pickle.dump can serialise every payload of m
Picklable(m) == \A t \in Pairs(m) : t[3] \notin Unpicklable

\* cache.pickle: absent, cut short by a failed write, or a pickle image
NoFile == [kind |-> "nofile", keys |-> {}, items |-> {}]
Truncated == [kind |-> "truncated", keys |-> {}, items |-> {}]

\* the image pickle.dump writes: the outer keys and the stored items (the
\* container itself is taken to be serialisable, as the round trip requires)
PickleDump(m) == [kind |-> "image", keys |-> DOMAIN m, items |-> Pairs(m)]

\* the mapping pickle.load rebuilds from an image
PickleLoad(b) ==
  [p \in b.keys |->
     [f \in {t[2] : t \in {u \in b.items : u[1] = p}} |->
        (CHOOSE t \in b.items : t[1] = p /\ t[2] = f)[3]]]

PyBool(b) == IF b THEN True ELSE False

Call(op, i, f, p, v, exc) ==
  [op |-> op, inst |-> i, file |-> f, pat |-> p, val |-> v, exc |-> exc,
   reflush |-> op = "flush" /\ ret.op = "flush" /\ ret.inst = i]

(***************************************************************************)
(* Operations of ContentHashStore.                                         *)
(***************************************************************************)
Contains(i, f, p) ==
  /\ Mutate(i, DefaultGet(SelfMap(i), p))
  /\ ret' = Call("contains", i, f, p, PyBool(ContainsIn(SelfMap(i), f, p)), "none")
  /\ UNCHANGED <<dirExists, blob, flushedMap>>

LoadEntry(i, f, p) ==
  /\ Mutate(i, DefaultGet(SelfMap(i), p))
  /\ ret' = Call("load_entry", i, f, p, GetIn(SelfMap(i), f, p), "none")
  /\ UNCHANGED <<dirExists, blob, flushedMap>>

SaveEntry(i, f, p, v) ==
  /\ Mutate(i, SaveIn(SelfMap(i), f, p, v))
  /\ ret' = Call("save_entry", i, f, p, v, "none")
  /\ UNCHANGED <<dirExists, blob, flushedMap>>

\* a load that updates the current mapping with the image instead of replacing it
LoadMerging(i) ==
  /\ UNCHANGED <<classMap, dirExists, blob, flushedMap>>
  /\ IF blob = NoFile
     THEN /\ ret' = Call("load", i, "-", "-", None, "FileNotFoundError")
          /\ UNCHANGED instMap
     ELSE IF blob = Truncated
     THEN /\ ret' = Call("load", i, "-", "-", None, "EOFError")
          /\ UNCHANGED instMap
     ELSE LET old == SelfMap(i)
              new == PickleLoad(blob)
              merged == [p \in DOMAIN old \cup DOMAIN new |->
                           IF p \notin DOMAIN new THEN old[p]
                           ELSE IF p \notin DOMAIN old THEN new[p]
                           ELSE new[p] @@ old[p]]
          IN  /\ instMap' = [instMap EXCEPT ![i] = [set |-> TRUE, map |-> merged]]
              /\ ret' = Call("load", i, "-", "-", None, "none")

Load(i) ==
  /\ UNCHANGED <<classMap, dirExists, blob, flushedMap>>
  /\ IF blob = NoFile
     THEN \* open(self.cache_path, 'rb') raises
          /\ ret' = Call("load", i, "-", "-", None, "FileNotFoundError")
          /\ UNCHANGED instMap
     ELSE IF blob = Truncated
     THEN \* pickle.load raises on an empty or cut image
          /\ ret' = Call("load", i, "-", "-", None, "EOFError")
          /\ UNCHANGED instMap
     ELSE /\ instMap' = [instMap EXCEPT ![i] = [set |-> TRUE, map |-> PickleLoad(blob)]]
          /\ ret' = Call("load", i, "-", "-", None, "none")

\* a flush that empties the mapping once it has written it
FlushClearing(i) ==
  /\ UNCHANGED dirExists
  /\ IF ~dirExists
     THEN /\ ret' = Call("flush", i, "-", "-", None, "FileNotFoundError")
          /\ UNCHANGED <<classMap, instMap, blob, flushedMap>>
     ELSE IF ~Picklable(SelfMap(i))
     THEN /\ blob' = Truncated
          /\ ret' = Call("flush", i, "-", "-", None, "PicklingError")
          /\ UNCHANGED <<classMap, instMap, flushedMap>>
     ELSE /\ blob' = PickleDump(SelfMap(i))
          /\ flushedMap' = SelfMap(i)
          /\ Mutate(i, EmptyMap)
          /\ ret' = Call("flush", i, "-", "-", None, "none")

\* a flush that merges the entries of the existing image into the one it writes
FlushMerging(i) ==
  /\ UNCHANGED <<classMap, instMap, dirExists>>
  /\ IF ~dirExists
     THEN /\ ret' = Call("flush", i, "-", "-", None, "FileNotFoundError")
          /\ UNCHANGED <<blob, flushedMap>>
     ELSE IF ~Picklable(SelfMap(i))
     THEN /\ blob' = Truncated
          /\ ret' = Call("flush", i, "-", "-", None, "PicklingError")
          /\ UNCHANGED flushedMap
     ELSE /\ blob' = [kind |-> "image",
                      keys |-> DOMAIN SelfMap(i) \cup blob.keys,
                      items |-> Pairs(SelfMap(i)) \cup
                                {t \in blob.items :
                                   ~\E u \in Pairs(SelfMap(i)) : u[1] = t[1] /\ u[2] = t[2]}]
          /\ flushedMap' = SelfMap(i)
          /\ ret' = Call("flush", i, "-", "-", None, "none")

Flush(i) ==
  /\ UNCHANGED <<classMap, instMap, dirExists>>
  /\ IF ~dirExists
     THEN \* open(self.cache_path, 'wb') raises: the directory is never created
          /\ ret' = Call("flush", i, "-", "-", None, "FileNotFoundError")
          /\ UNCHANGED <<blob, flushedMap>>
     ELSE IF ~Picklable(SelfMap(i))
     THEN \* open(..., 'wb') has truncated the file when pickle.dump raises
          /\ blob' = Truncated
          /\ ret' = Call("flush", i, "-", "-", None, "PicklingError")
          /\ UNCHANGED flushedMap
     ELSE /\ blob' = PickleDump(SelfMap(i))
          /\ flushedMap' = SelfMap(i)
          /\ ret' = Call("flush", i, "-", "-", None, "none")

\* an instance on which load() has not assigned self.semgrep_md5_hash
NoAttr == [set |-> FALSE, map |-> EmptyMap]

\* mappings an earlier session may have flushed
PriorMaps == {EmptyMap, SaveIn(EmptyMap, "f1", "p1", "v1")}

InitStore ==
  /\ classMap = [q \in Procs |-> EmptyMap]
  /\ instMap = [i \in Insts |-> NoAttr]
  /\ ret = Call("init", "-", "-", "-", None, "none")
  /\ steps = 0
  /\ phase = [i \in Insts |-> "new"]
  /\ \/ /\ dirExists = FALSE
        /\ blob = NoFile
        /\ flushedMap = EmptyMap
     \/ /\ dirExists = TRUE
        /\ blob = NoFile
        /\ flushedMap = EmptyMap
     \/ /\ dirExists = TRUE
        /\ \E m \in PriorMaps : blob = PickleDump(m) /\ flushedMap = m

\* the resolver before any call
IdleResolver ==
  /\ fnames = << >>
  /\ tracked = {}
  /\ gitMode = "ok"
  /\ batch = [r \in {1, 2} |-> 1]
  /\ gen = [r \in {1, 2} |->
             [rest |-> << >>, out |-> << >>, status |-> "done", exc |-> "none",
              queries |-> 0, md5calls |-> 0]]
  /\ single = [fname |-> "-", val |-> None, exc |-> "none"]

\* no document written yet
NoDoc == [written |-> FALSE, repository_to_times_per_rule |-> << >>,
          time_per_rule_average |-> << >>]

AggCall(op, repo, exc) == [op |-> op, repo |-> repo, exc |-> exc]

\* a RepositoryTimePerRule built with its default arguments, before any call
IdleAggregator ==
  /\ repo_to_times_per_rule = << >>
  /\ rules_to_total_time_num_files = << >>
  /\ output_file = NoDoc
  /\ aggRet = AggCall("init", "-", "none")
  /\ aggCalls = 0
  /\ seen = [r \in RuleIds |-> [sum |-> 0, count |-> 0, zeroes |-> 0]]
  /\ repoSeen = << >>

Init == InitStore /\ IdleResolver /\ IdleAggregator

\* one more call, within the bound
Tick(bound) == steps < bound /\ steps' = steps + 1

\* the instances of one interpreter, called in any order
Callers == {"s1", "s2"}

Next ==
  \/ \E i \in Callers, f \in FileIds, p \in PatternIds :
       Tick(MaxSteps) /\ Contains(i, f, p) /\ UNCHANGED <<phase, resolverVars, aggVars>>
  \/ \E i \in Callers, f \in FileIds, p \in PatternIds :
       Tick(MaxSteps) /\ LoadEntry(i, f, p) /\ UNCHANGED <<phase, resolverVars, aggVars>>
  \/ \E i \in Callers, f \in FileIds, p \in PatternIds, v \in Payloads :
       Tick(MaxSteps) /\ SaveEntry(i, f, p, v) /\ UNCHANGED <<phase, resolverVars, aggVars>>
  \/ \E i \in Callers : Tick(MaxSteps) /\ Load(i) /\ UNCHANGED <<phase, resolverVars, aggVars>>
  \/ \E i \in Callers : Tick(MaxSteps) /\ Flush(i) /\ UNCHANGED <<phase, resolverVars, aggVars>>

Spec == Init /\ [][Next]_vars

(***************************************************************************)
(* Two processes, each running one session on the shared cache file: load()*)
(* at start, save_entry calls, one flush() at the end.  An exception that  *)
(* leaves load() or flush() ends the session.                              *)
(***************************************************************************)
Sessions == {"s1", "s3"}

After(i, ok) == phase' = [phase EXCEPT ![i] = IF ret'.exc = "none" THEN ok ELSE "failed"]

SessionLoad(i) ==
  /\ phase[i] = "new"
  /\ Load(i)
  /\ After(i, "loaded")

SessionSave(i, f, p, v) ==
  /\ phase[i] = "loaded"
  /\ SaveEntry(i, f, p, v)
  /\ UNCHANGED phase

SessionFlush(i) ==
  /\ phase[i] = "loaded"
  /\ Flush(i)
  /\ After(i, "flushed")

NextLWW ==
  \/ \E i \in Sessions :
       Tick(MaxSessionSteps) /\ SessionLoad(i) /\ UNCHANGED <<resolverVars, aggVars>>
  \/ \E i \in Sessions, f \in FileIds, p \in PatternIds, v \in Payloads :
       Tick(MaxSessionSteps) /\ SessionSave(i, f, p, v) /\ UNCHANGED <<resolverVars, aggVars>>
  \/ \E i \in Sessions :
       Tick(MaxSessionSteps) /\ SessionFlush(i) /\ UNCHANGED <<resolverVars, aggVars>>

SpecLWW == Init /\ [][NextLWW]_vars

(***************************************************************************)
(* File identities: git_hash, git_hashes, md5_hash.                        *)
(***************************************************************************)
\* the text git prints on stderr for a file that is on disk but not in HEAD,
\* which lines 70 and 90 look for
Marker == "exists on disk, but not in 'HEAD'"

\* file names; the last one is a file whose name is the marker text
Paths == {"a.py", "b.py", "c.py", Marker}

\* the blob id git rev-parse prints for a tracked file, the hex digest md5_hash computes
GitId(path) == "git:" \o path
Md5(path) == "md5:" \o path

\* len(h) of a stripped line of git's output: the hex characters of a blob id
HexLen(h) == 40

\* names bound at module level of content_hash_store.py; md5_hash is a
\* classmethod of ContentHashStore and no module-level name
ModuleGlobals ==
  {"subprocess", "hashlib", "Any", "List", "Tuple", "Dict", "Optional", "pickle",
   "os", "time", "itertools", "Path", "default_dict_dict_of_list", "print_time",
   "MD5_CACHE_DIR", "grouper", "ContentHashStore"}

\* attributes of a subprocess.CalledProcessError
CalledProcessErrorAttrs == {"returncode", "cmd", "output", "stdout", "stderr", "args"}

Min(a, b) == IF a < b THEN a ELSE b

\* tuple(itertools.islice(it, n)): the next chunk grouper takes, empty at the end
Chunk(n, s) == SubSeq(s, 1, Min(n, Len(s)))

\* what the iterator holds after that chunk
AfterChunk(n, s) == SubSeq(s, Min(n, Len(s)) + 1, Len(s))

\* zip(fnames_block, hashes): pairs up to the shorter of the two
Zip(a, b) == [k \in 1..Min(Len(a), Len(b)) |-> <<a[k], b[k]>>]

\* subprocess.check_output(["/usr/bin/git", "rev-parse", "HEAD:<fname>", ...]):
\* the exception it raises and, on success, the lines of its output
Query(block) ==
  IF gitMode = "oserror"
  THEN [exc |-> "FileNotFoundError", cause |-> "other", lines |-> << >>]
  ELSE IF gitMode = "cpe"
  THEN [exc |-> "CalledProcessError", cause |-> "other", lines |-> << >>]
  ELSE IF \E k \in 1..Len(block) : block[k] \notin tracked
  THEN [exc |-> "CalledProcessError", cause |-> "untracked", lines |-> << >>]
  ELSE [exc |-> "none", cause |-> "none",
        lines |-> [k \in 1..Len(block) |-> GitId(block[k])]]

\* whether the marker occurs in str(ex): a CalledProcessError prints as
\* "Command '<argument list>' returned non-zero exit status <n>.", so the text
\* holds the file names of the block and nothing git wrote
MarkerInStr(block) == \E k \in 1..Len(block) : block[k] = Marker

\* the fallback loop of lines 92-93: the bare name md5_hash is looked up in the
\* module's globals when the first pair is computed
Fallback(block) ==
  IF "md5_hash" \in ModuleGlobals
  THEN [exc |-> "none", pairs |-> [k \in 1..Len(block) |-> <<block[k], Md5(block[k])>>]]
  ELSE [exc |-> "NameError", pairs |-> << >>]

\* one round of the for loop of git_hashes: next chunk, one query, its outcome
GitHashesBlock(r) ==
  /\ gen[r].status = "running"
  /\ LET st == gen[r]
         block == Chunk(batch[r], st.rest)
         q == Query(block)
         fb == Fallback(block)
     IN  gen' = [gen EXCEPT ![r] =
           IF block = << >>
           THEN [st EXCEPT !.status = "done"]
           ELSE IF q.exc = "none"
           THEN [st EXCEPT !.rest = AfterChunk(batch[r], st.rest),
                           !.out = st.out \o Zip(block, q.lines),
                           !.queries = st.queries + 1]
           ELSE IF q.exc = "CalledProcessError" /\ MarkerInStr(block)
           THEN IF fb.exc = "none"
                THEN [st EXCEPT !.rest = AfterChunk(batch[r], st.rest),
                                !.out = st.out \o fb.pairs,
                                !.queries = st.queries + 1,
                                !.md5calls = st.md5calls + Len(block)]
                ELSE [st EXCEPT !.status = "raised", !.exc = fb.exc,
                                !.queries = st.queries + 1]
           ELSE [st EXCEPT !.status = "raised", !.exc = q.exc,
                           !.queries = st.queries + 1]]
  /\ UNCHANGED <<fnames, tracked, gitMode, batch, single>>

\* git_hash(fname)
GitHash(fname) ==
  /\ single.fname = "-"
  /\ LET q == Query(<<fname>>)
         fb == Fallback(<<fname>>)
     IN  single' =
           IF q.exc = "none"
           THEN IF HexLen(q.lines[1]) \in {40, 41}
                THEN [fname |-> fname, val |-> q.lines[1], exc |-> "none"]
                ELSE [fname |-> fname, val |-> None, exc |-> "AssertionError"]
           ELSE IF q.exc = "CalledProcessError"
           THEN IF "message" \notin CalledProcessErrorAttrs
                THEN [fname |-> fname, val |-> None, exc |-> "AttributeError"]
                ELSE IF q.cause = "untracked"
                THEN IF fb.exc = "none"
                     THEN [fname |-> fname, val |-> fb.pairs[1][2], exc |-> "none"]
                     ELSE [fname |-> fname, val |-> None, exc |-> fb.exc]
                ELSE [fname |-> fname, val |-> None, exc |-> q.exc]
           ELSE [fname |-> fname, val |-> None, exc |-> q.exc]
  /\ UNCHANGED <<fnames, tracked, gitMode, batch, gen>>

\* lists of distinct file names
NameLists ==
  {s \in UNION {[1..n -> Paths] : n \in 0..MaxLen} :
     \A i, j \in 1..Len(s) : i # j => s[i] # s[j]}

InitResolver ==
  /\ classMap = [q \in Procs |-> EmptyMap]
  /\ instMap = [i \in Insts |-> NoAttr]
  /\ ret = Call("init", "-", "-", "-", None, "none")
  /\ steps = 0
  /\ phase = [i \in Insts |-> "new"]
  /\ dirExists = FALSE
  /\ blob = NoFile
  /\ flushedMap = EmptyMap
  /\ fnames \in NameLists
  /\ tracked \in SUBSET Paths
  /\ gitMode \in {"ok", "cpe", "oserror"}
  /\ batch \in [{1, 2} -> 1..MaxBatch]
  /\ gen = [r \in {1, 2} |->
             [rest |-> fnames, out |-> << >>, status |-> "running", exc |-> "none",
              queries |-> 0, md5calls |-> 0]]
  /\ single = [fname |-> "-", val |-> None, exc |-> "none"]
  /\ repo_to_times_per_rule = << >>
  /\ rules_to_total_time_num_files = << >>
  /\ output_file = NoDoc
  /\ aggRet = AggCall("init", "-", "none")
  /\ aggCalls = 0
  /\ seen = [r \in RuleIds |-> [sum |-> 0, count |-> 0, zeroes |-> 0]]
  /\ repoSeen = << >>

NextResolver ==
  \/ \E r \in {1, 2} : GitHashesBlock(r) /\ UNCHANGED <<storeVars, phase, aggVars>>
  \/ \E fname \in Paths : GitHash(fname) /\ UNCHANGED <<storeVars, phase, aggVars>>

\* two git_hashes generators consumed over the same files, and one git_hash call
SpecResolver == InitResolver /\ [][NextResolver]_vars

(***************************************************************************)
(* The timing aggregator: perf/RepositoryTimePerRule.py.                   *)
(***************************************************************************)
\* per-file, per-rule durations
Durations == {0, 1, 2}

\* the 'rules' of a report: distinct rule ids in some order
RuleLists == {<<"r1">>, <<"r2">>, <<"r1", "r2">>, <<"r2", "r1">>}

\* the 'targets' of a report over n rules: per file one duration per rule, at
\* most two durations in all
TargetLists(n) == UNION {[1..k -> [1..n -> Durations]] : k \in 0..(2 \div n)}

\* the reports a call is given: well formed, not JSON, or made without --time
Reports ==
  {[kind |-> "ok", rules |-> rs, targets |-> ts] :
     rs \in {rl \in RuleLists : Len(rl) = 1}, ts \in TargetLists(1)}
  \cup {[kind |-> "ok", rules |-> rs, targets |-> ts] :
     rs \in {rl \in RuleLists : Len(rl) = 2}, ts \in TargetLists(2)}
  \cup {[kind |-> k, rules |-> << >>, targets |-> << >>] : k \in {"undecodable", "notime"}}

TotalTimeAndTargetNum(t, n) == [total_rule_time |-> t, num_targets |-> n]

\* an addition that sums the times and keeps the count of the left operand
AddTimesOnly(a, b) ==
  TotalTimeAndTargetNum(a.total_rule_time + b.total_rule_time, a.num_targets)

\* TotalTimeAndTargetNum.__add__
Add(a, b) ==
  TotalTimeAndTargetNum(a.total_rule_time + b.total_rule_time,
                        a.num_targets + b.num_targets)

RECURSIVE Gcd(_, _)
Gcd(a, b) == IF b = 0 THEN a ELSE Gcd(b, a % b)

\* the quotient a / b of two numbers, b > 0, in lowest terms
Quotient(a, b) == [num |-> a \div Gcd(a, b), den |-> b \div Gcd(a, b)]

\* return_average, for a positive num_targets
ReturnAverage(tt) == Quotient(tt.total_rule_time, tt.num_targets)

\* a dict, in insertion order: a sequence of <<key, value>> without repeated keys
DictKeys(d) == {d[k][1] : k \in DOMAIN d}

\* d[key] of a defaultdict with the given default
DictGet(d, key, default) ==
  IF key \in DictKeys(d) THEN d[CHOOSE k \in DOMAIN d : d[k][1] = key][2] ELSE default

\* d[key] = val: a present key keeps its place, a new key goes last
DictSet(d, key, val) ==
  IF key \in DictKeys(d)
  THEN [k \in DOMAIN d |-> IF d[k][1] = key THEN <<key, val>> ELSE d[k]]
  ELSE Append(d, <<key, val>>)

\* list(map(add, a, b)): element-wise sums up to the shorter list
ListAdd(a, b) == [k \in 1..Min(Len(a), Len(b)) |-> a[k] + b[k]]

\* total_time_per_rule after the loop over the targets
TotalTimes(rule_ids, targets) ==
  LET tot[k \in 0..Len(targets)] ==
        IF k = 0 THEN [j \in 1..Len(rule_ids) |-> 0]
        ELSE ListAdd(targets[k], tot[k - 1])
  IN  tot[Len(targets)]

\* the loop over one target with the test parse_time >= 0
AfterTargetCountingZeroes(d, rule_ids, parse_times) ==
  LET upto[j \in 0..Len(parse_times)] ==
        IF j = 0 THEN d
        ELSE LET before == upto[j - 1]
             IN  IF parse_times[j] >= 0
                 THEN DictSet(before, rule_ids[j],
                              Add(DictGet(before, rule_ids[j], TotalTimeAndTargetNum(0, 0)),
                                  TotalTimeAndTargetNum(parse_times[j], 1)))
                 ELSE before
  IN  upto[Len(parse_times)]

\* repo_time_per_rule_no_zeroes after the loop of lines 60-62 over one target
AfterTarget(d, rule_ids, parse_times) ==
  LET upto[j \in 0..Len(parse_times)] ==
        IF j = 0 THEN d
        ELSE LET before == upto[j - 1]
             IN  IF parse_times[j] > 0
                 THEN DictSet(before, rule_ids[j],
                              Add(DictGet(before, rule_ids[j], TotalTimeAndTargetNum(0, 0)),
                                  TotalTimeAndTargetNum(parse_times[j], 1)))
                 ELSE before
  IN  upto[Len(parse_times)]

\* repo_time_per_rule_no_zeroes after the loop over the targets
NoZeroes(rule_ids, targets) ==
  LET upto[k \in 0..Len(targets)] ==
        IF k = 0 THEN << >>
        ELSE AfterTarget(upto[k - 1], rule_ids, targets[k])
  IN  upto[Len(targets)]

\* whether quotient x is at least quotient y
AtLeast(x, y) == x.num * y.den >= y.num * x.den

\* the sorted items s with item x put in its place: behind the items whose
\* time is at least its own
InsertSorted(s, x) ==
  LET n == Cardinality({k \in DOMAIN s : AtLeast(s[k][2], x[2])})
  IN  SubSeq(s, 1, n) \o <<x>> \o SubSeq(s, n + 1, Len(s))

\* sorted(items, key=lambda item: -item[1]) on items <<rule id, quotient>>:
\* stable, the greatest time first
SortedDesc(items) ==
  LET upto[k \in 0..Len(items)] ==
        IF k = 0 THEN << >>
        ELSE InsertSorted(upto[k - 1], items[k])
  IN  upto[Len(items)]

\* the same on items <<rule id, number>>
SortedTimes(items) ==
  LET sorted == SortedDesc([k \in DOMAIN items |->
                              <<items[k][1], Quotient(items[k][2], 1)>>])
  IN  [k \in DOMAIN sorted |-> <<sorted[k][1], sorted[k][2].num>>]

\* the overall statistics after the loop of lines 67-69
AddToOverall(overall, no_zeroes) ==
  LET upto[k \in 0..Len(no_zeroes)] ==
        IF k = 0 THEN overall
        ELSE LET before == upto[k - 1]
             IN  DictSet(before, no_zeroes[k][1],
                         Add(DictGet(before, no_zeroes[k][1], TotalTimeAndTargetNum(0, 0)),
                             no_zeroes[k][2]))
  IN  upto[Len(no_zeroes)]

\* whether return_average divides by zero for some rule
DividesByZero(overall) == \E k \in DOMAIN overall : overall[k][2].num_targets = 0

\* _calculate_time_per_rule
calculate_time_per_rule ==
  SortedDesc([k \in DOMAIN rules_to_total_time_num_files |->
                <<rules_to_total_time_num_files[k][1],
                  ReturnAverage(rules_to_total_time_num_files[k][2])>>])

\* the (rule id, duration) occurrences of a report, each with its number
Observations(report) ==
  LET pos == {<<k, j>> : k \in DOMAIN report.targets, j \in DOMAIN report.rules}
      Obs(q) == <<report.rules[q[2]], report.targets[q[1]][q[2]]>>
  IN  [o \in {Obs(q) : q \in pos} |-> Cardinality({q \in pos : Obs(q) = o})]

\* the sum of w over a finite set
RECURSIVE Sum(_, _)
Sum(w, S) ==
  IF S = {} THEN 0
  ELSE LET x == CHOOSE y \in S : TRUE IN w[x] + Sum(w, S \ {x})

\* over the occurrences obs: the sum of the durations of a rule, and the number
\* of its positive durations
DurationSum(obs, rule) ==
  Sum([o \in DOMAIN obs |-> IF o[1] = rule THEN o[2] * obs[o] ELSE 0], DOMAIN obs)
PositiveCount(obs, rule) ==
  Sum([o \in DOMAIN obs |-> IF o[1] = rule /\ o[2] > 0 THEN obs[o] ELSE 0], DOMAIN obs)
ZeroCount(obs, rule) ==
  Sum([o \in DOMAIN obs |-> IF o[1] = rule /\ o[2] = 0 THEN obs[o] ELSE 0], DOMAIN obs)

times_per_file_to_times_per_rule(repo_name, report) ==
  /\ aggRet.exc # "SystemExit"
  /\ UNCHANGED output_file
  /\ IF report.kind # "ok"
     THEN \* lines 40-48: a message is printed and sys.exit(1) ends the run
          /\ aggRet' = AggCall("times_per_file_to_times_per_rule", repo_name, "SystemExit")
          /\ UNCHANGED <<repo_to_times_per_rule, rules_to_total_time_num_files,
                         seen, repoSeen>>
     ELSE LET rule_ids == report.rules
              total_time_per_rule == TotalTimes(rule_ids, report.targets)
              repo_time_per_rule_no_zeroes == NoZeroes(rule_ids, report.targets)
              current_repo_times == Zip(rule_ids, total_time_per_rule)
          IN  /\ repo_to_times_per_rule' =
                   (repo_name :> SortedTimes(current_repo_times))
                     @@ repo_to_times_per_rule
              /\ rules_to_total_time_num_files' =
                   AddToOverall(rules_to_total_time_num_files,
                                repo_time_per_rule_no_zeroes)
              /\ seen' = [r \in RuleIds |->
                            [sum |-> seen[r].sum + DurationSum(Observations(report), r),
                             count |-> seen[r].count
                                         + PositiveCount(Observations(report), r),
                             zeroes |-> seen[r].zeroes
                                          + ZeroCount(Observations(report), r)]]
              /\ repoSeen' = (repo_name :>
                                [r \in {rule_ids[j] : j \in DOMAIN rule_ids} |->
                                   DurationSum(Observations(report), r)]) @@ repoSeen
              /\ aggRet' = AggCall("times_per_file_to_times_per_rule", repo_name, "none")

print_repo_to_times_per_rule ==
  /\ aggRet.exc # "SystemExit"
  /\ UNCHANGED <<repo_to_times_per_rule, rules_to_total_time_num_files, seen, repoSeen>>
  /\ IF DividesByZero(rules_to_total_time_num_files)
     THEN \* _calculate_time_per_rule raises before the file is opened
          /\ aggRet' = AggCall("print_repo_to_times_per_rule", "-", "ZeroDivisionError")
          /\ UNCHANGED output_file
     ELSE /\ output_file' = [written |-> TRUE,
                             repository_to_times_per_rule |-> repo_to_times_per_rule,
                             time_per_rule_average |-> calculate_time_per_rule]
          /\ aggRet' = AggCall("print_repo_to_times_per_rule", "-", "none")

\* one more aggregator call, within the bound
AggTick == aggCalls < MaxCalls /\ aggCalls' = aggCalls + 1

InitAggregator ==
  /\ classMap = [q \in Procs |-> EmptyMap]
  /\ instMap = [i \in Insts |-> NoAttr]
  /\ ret = Call("init", "-", "-", "-", None, "none")
  /\ steps = 0
  /\ phase = [i \in Insts |-> "new"]
  /\ dirExists = FALSE
  /\ blob = NoFile
  /\ flushedMap = EmptyMap
  /\ fnames = << >>
  /\ tracked = {}
  /\ gitMode = "ok"
  /\ batch = [r \in {1, 2} |-> 1]
  /\ gen = [r \in {1, 2} |->
             [rest |-> << >>, out |-> << >>, status |-> "done", exc |-> "none",
              queries |-> 0, md5calls |-> 0]]
  /\ single = [fname |-> "-", val |-> None, exc |-> "none"]
  /\ repo_to_times_per_rule = << >>
  /\ rules_to_total_time_num_files = << >>
  /\ output_file = NoDoc
  /\ aggRet = AggCall("init", "-", "none")
  /\ aggCalls = 0
  /\ seen = [r \in RuleIds |-> [sum |-> 0, count |-> 0, zeroes |-> 0]]
  /\ repoSeen = << >>

NextAggregator ==
  \/ \E repo_name \in Repos, report \in Reports :
       /\ AggTick
       /\ times_per_file_to_times_per_rule(repo_name, report)
       /\ UNCHANGED <<storeVars, phase, resolverVars>>
  \/ /\ AggTick
     /\ print_repo_to_times_per_rule
     /\ UNCHANGED <<storeVars, phase, resolverVars>>

\* one aggregator fed reports of several repositories, printing at any time
SpecAggregator == InitAggregator /\ [][NextAggregator]_vars

(***************************************************************************)
(* Properties of the cache store.                                          *)
(***************************************************************************)
\* the (pattern hash, file hash) keys of a mapping
Keys(m) == {<<t[1], t[2]>> : t \in Pairs(m)}

\* C1: immediately after save_entry(f, p, v) on an instance, contains(f, p) is
\* true on it and load_entry(f, p) returns v, the last payload written, and the
\* pair holds exactly one entry.
C1_SaveThenRead ==
  ret.op = "save_entry" =>
    LET m == SelfMap(ret.inst)
    IN  /\ ret.exc = "none"
        /\ ContainsIn(m, ret.file, ret.pat)
        /\ GetIn(m, ret.file, ret.pat) = ret.val
        /\ {t \in Pairs(m) : t[1] = ret.pat /\ t[2] = ret.file}
             = {<<ret.pat, ret.file, ret.val>>}

\* a save_entry that overwrote the payload the instance had loaded for the pair
C1_Witness ==
  /\ ret.op = "save_entry"
  /\ instMap[ret.inst].set
  /\ blob.kind = "image"
  /\ \E t \in blob.items : t[1] = ret.pat /\ t[2] = ret.file /\ t[3] # ret.val
  /\ Cardinality(Pairs(SelfMap(ret.inst))) = 1

\* C2 (as claimed): whatever mapping of serialisable payloads an instance
\* holds, its flush() followed by load() on another instance completes and
\* leaves that instance with exactly the flushed pairs and payloads.
C2_RoundTrip ==
  [][(/\ ret.op = "flush"
      /\ Picklable(SelfMap(ret.inst))
      /\ ret'.op = "load"
      /\ ret'.inst # ret.inst) =>
       (/\ ret.exc = "none"
        /\ ret'.exc = "none"
        /\ instMap'[ret'.inst].set
        /\ Pairs(instMap'[ret'.inst].map) = Pairs(SelfMap(ret.inst)))]_vars

\* C3 (as claimed): on a first run, with neither directory nor file, load() does
\* not raise and leaves an empty mapping, and a flush() of a serialisable mapping
\* succeeds, creating the directory and the file.
C3_FirstRun ==
  /\ (ret.op = "load" /\ blob.kind = "nofile") =>
       /\ ret.exc = "none"
       /\ instMap[ret.inst].set
       /\ Pairs(SelfMap(ret.inst)) = {}
  /\ (ret.op = "flush" /\ Picklable(SelfMap(ret.inst))) =>
       /\ ret.exc = "none"
       /\ dirExists
       /\ blob.kind = "image"

\* C10: a lookup of a pair the mapping holds no entry for does not raise:
\* contains returns False and load_entry returns None, also when the pattern
\* hash is no key of the mapping.
C10_MissingLookup ==
  (ret.op \in {"contains", "load_entry"}
     /\ <<ret.pat, ret.file>> \notin Keys(SelfMap(ret.inst))) =>
    /\ ret.exc = "none"
    /\ ret.op = "contains" => ret.val = False
    /\ ret.op = "load_entry" => ret.val = None

\* a load_entry of a missing file hash under a pattern hash that holds another entry
C10_Witness ==
  /\ ret.op = "load_entry"
  /\ <<ret.pat, ret.file>> \notin Keys(SelfMap(ret.inst))
  /\ \E t \in Pairs(SelfMap(ret.inst)) : t[1] = ret.pat

\* C4: when both sessions have flushed, the image is exactly the mapping of the
\* session that flushed last and holds none of the entries only the other has.
C4_LastWriterWins ==
  \A i \in Sessions, j \in Sessions :
    (i # j /\ phase[i] = "flushed" /\ phase[j] = "flushed"
       /\ ret.op = "flush" /\ ret.inst = j) =>
      /\ blob.kind = "image"
      /\ PickleLoad(blob) = SelfMap(j)
      /\ (Pairs(SelfMap(i)) \ Pairs(SelfMap(j))) \cap blob.items = {}

\* s1 and s3 loaded the same image, each saved a pair the other lacks, s1 flushed,
\* then s3 flushed
C4_Witness ==
  /\ phase["s1"] = "flushed" /\ phase["s3"] = "flushed"
  /\ ret.op = "flush" /\ ret.inst = "s3"
  /\ Keys(SelfMap("s1")) \ Keys(SelfMap("s3")) # {}
  /\ Keys(SelfMap("s3")) \ Keys(SelfMap("s1")) # {}
  /\ Keys(SelfMap("s1")) \cap Keys(SelfMap("s3")) # {}

\* C11 (as claimed): contains and load_entry are pure reads: a lookup of any
\* pair, present or absent, leaves the mapping of every instance (its pattern
\* hash keys, its pairs, its payloads) and the file unchanged, so a flush()
\* after the lookup writes the image a flush() before it would have written.
C11_PureReads ==
  [][ret'.op \in {"contains", "load_entry"} =>
       (/\ classMap' = classMap
        /\ instMap' = instMap
        /\ blob' = blob
        /\ \A i \in Insts : PickleDump(SelfMap(i))' = PickleDump(SelfMap(i)))]_vars

\* C12 (as claimed): in every state the file, if present, is the image of the
\* complete mapping the most recent flush() wrote, and save_entry, contains and
\* load_entry never change the file.
C12_Snapshot ==
  [][/\ blob'.kind # "nofile" => blob' = PickleDump(flushedMap')
     /\ ret'.op \in {"save_entry", "contains", "load_entry"} => blob' = blob]_vars

\* the (pattern hash, file hash) keys of an image
ImageKeys(b) == {<<t[1], t[2]>> : t \in b.items}

\* C13 (as claimed): over load, save_entry and flush no pair once present in the
\* store (the mapping of an instance, or the file) is ever absent later.
C13_OnlyGrows ==
  [][\A i \in Insts :
       Keys(SelfMap(i)) \subseteq (Keys(SelfMap(i)))' \cup ImageKeys(blob')]_vars

\* C13 (amended): over save_entry, contains, load_entry and flush no pair once
\* present in the mapping of an instance is ever absent from it later; only
\* load() removes pairs, those the image it reads lacks.
C13_GrowsWithoutLoad ==
  [][ret'.op # "load" =>
       \A i \in Insts : Keys(SelfMap(i)) \subseteq (Keys(SelfMap(i)))']_vars

\* two saved pairs are still held after a lookup or a flush
C13_Witness ==
  /\ ret.op \in {"contains", "load_entry", "flush"}
  /\ Cardinality(Keys(SelfMap(ret.inst))) >= 2
  /\ \E t \in Pairs(SelfMap(ret.inst)), u \in Pairs(SelfMap(ret.inst)) :
       t[1] = u[1] /\ t[2] # u[2]

\* C14: save_entry(f, p, v) changes the entry of the pair (f, p) only: for every
\* other pair, the same f under another p included, contains and load_entry on
\* the instance give the same result after the call as before it.
C14_SaveFrame ==
  [][ret'.op = "save_entry" =>
       \A i \in Callers, f \in FileIds, p \in PatternIds :
         (i = ret'.inst /\ <<f, p>> # <<ret'.file, ret'.pat>>) =>
           /\ ContainsIn(SelfMap(i), f, p)' = ContainsIn(SelfMap(i), f, p)
           /\ GetIn(SelfMap(i), f, p)' = GetIn(SelfMap(i), f, p)]_vars

\* a save_entry of a file hash the instance holds under another pattern hash
\* with another payload
C14_Witness ==
  /\ ret.op = "save_entry"
  /\ \E t \in Pairs(SelfMap(ret.inst)) :
       t[2] = ret.file /\ t[1] # ret.pat /\ t[3] # ret.val

\* C15 (as claimed): each instance owns its mapping: save_entry on one instance
\* never changes what contains and load_entry return on another instance of the
\* same process, whether or not either has called load().
C15_InstanceOwnership ==
  [][ret'.op = "save_entry" =>
       \A j \in Insts \ {ret'.inst}, f \in FileIds, p \in PatternIds :
         /\ ContainsIn(SelfMap(j), f, p)' = ContainsIn(SelfMap(j), f, p)
         /\ GetIn(SelfMap(j), f, p)' = GetIn(SelfMap(j), f, p)]_vars

\* C16: of two consecutive flush() calls of an instance the second leaves the
\* file as the first left it, and no flush() changes the mapping of an instance.
C16_FlushIdempotent ==
  [][ret'.op = "flush" =>
       /\ classMap' = classMap
       /\ instMap' = instMap
       /\ (ret.op = "flush" /\ ret.inst = ret'.inst) =>
            (blob' = blob /\ ret'.exc = ret.exc)]_vars

\* a second flush() of a mapping that holds entries, both completed
C16_Witness ==
  /\ ret.op = "flush"
  /\ ret.reflush
  /\ ret.exc = "none"
  /\ Pairs(SelfMap(ret.inst)) # {}
  /\ blob = PickleDump(SelfMap(ret.inst))

\* C18: when the file holds an image, load() completes and leaves the instance
\* with exactly the mapping of the image: the pairs it held before and the image
\* lacks are gone, nothing is merged.
C18_LoadReplaces ==
  (ret.op = "load" /\ blob.kind = "image") =>
    /\ ret.exc = "none"
    /\ instMap[ret.inst].set
    /\ SelfMap(ret.inst) = PickleLoad(blob)
    /\ Keys(SelfMap(ret.inst)) = ImageKeys(blob)

\* an instance that saw a saved, unflushed pair loads an image that lacks it
C18_Witness ==
  /\ ret.op = "load"
  /\ ret.exc = "none"
  /\ steps = 2
  /\ Pairs(SelfMap(ret.inst)) # {}
  /\ Keys(classMap[Proc(ret.inst)]) \ Keys(SelfMap(ret.inst)) # {}

\* C19 (as claimed): a flush() that fails raises and leaves the file as it was,
\* a complete earlier image or absent, never cut short.
C19_FailedFlushAtomic ==
  [][(ret'.op = "flush" /\ ret'.exc # "none") =>
       (blob' = blob /\ blob'.kind # "truncated")]_vars

(***************************************************************************)
(* Properties of the identity resolver.                                    *)
(***************************************************************************)
Terminal(r) == gen[r].status \in {"done", "raised"}

Names(s) == {s[k] : k \in 1..Len(s)}

\* the positions of the output of generator r that pair the file name path
Positions(r, path) == {k \in 1..Len(gen[r].out) : gen[r].out[k][1] = path}

\* the identities generator r paired with path
Assigned(r, path) == {gen[r].out[k][2] : k \in Positions(r, path)}

\* C5 (as claimed): when git works, so that a query succeeds or fails only for
\* an untracked file, a fully consumed git_hashes raised nothing and its output
\* holds every input name exactly once, with a non-empty identity, and no other.
C5_Completeness ==
  \A r \in {1, 2} :
    (Terminal(r) /\ gitMode = "ok") =>
      /\ gen[r].status = "done"
      /\ \A path \in Names(fnames) :
           /\ Cardinality(Positions(r, path)) = 1
           /\ \A id \in Assigned(r, path) : id # ""
      /\ \A k \in 1..Len(gen[r].out) : gen[r].out[k][1] \in Names(fnames)

\* C6 (as claimed): two fully consumed git_hashes runs over the same files with
\* block sizes batch[1] and batch[2] pair every name with the same identity.
C6_BatchIndependence ==
  (Terminal(1) /\ Terminal(2) /\ gitMode = "ok") =>
    \A path \in Names(fnames) : Assigned(1, path) = Assigned(2, path)

\* C7 (as claimed): when all names fit one block, exactly one of them is
\* untracked and git works, the output pairs the untracked name with its md5
\* digest and every tracked name with the id git reports.
C7_MixedBatch ==
  \A r \in {1, 2} :
    (/\ Terminal(r)
     /\ gitMode = "ok"
     /\ Len(fnames) >= 2
     /\ Len(fnames) <= batch[r]
     /\ Cardinality(Names(fnames) \ tracked) = 1) =>
      /\ gen[r].status = "done"
      /\ \A path \in Names(fnames) :
           Assigned(r, path) = {IF path \in tracked THEN GitId(path) ELSE Md5(path)}

\* C8 (as claimed): a file on disk that git does not track never makes resolution
\* fail: git_hash returns its md5 digest, and git_hashes ends without raising
\* and pairs it with its md5 digest.
C8_UntrackedResolves ==
  /\ (single.fname # "-" /\ gitMode = "ok" /\ single.fname \notin tracked) =>
       /\ single.exc = "none"
       /\ single.val = Md5(single.fname)
  /\ \A r \in {1, 2} :
       (Terminal(r) /\ gitMode = "ok") =>
         /\ gen[r].status = "done"
         /\ \A path \in Names(fnames) \ tracked : Assigned(r, path) = {Md5(path)}

\* C9 (as claimed): when the query fails for a reason other than an untracked
\* file, git_hashes raises that same failure, yields no pair of the block,
\* computes no md5 digest and makes no second query.
C9_FatalNotMasked ==
  \A r \in {1, 2} :
    (Terminal(r) /\ gitMode # "ok" /\ fnames # << >>) =>
      /\ gen[r].status = "raised"
      /\ gen[r].exc = Query(Chunk(batch[r], fnames)).exc
      /\ gen[r].out = << >>
      /\ gen[r].md5calls = 0
      /\ gen[r].queries = 1

(***************************************************************************)
(* Properties of the timing aggregator.                                    *)
(***************************************************************************)
\* dicts whose times, or averages, never increase from one item to the next
DescendingTimes(d) == \A k \in 1..(Len(d) - 1) : d[k][2] >= d[k + 1][2]
DescendingAverages(d) == \A k \in 1..(Len(d) - 1) : AtLeast(d[k][2], d[k + 1][2])

\* C17: after any calls on well-formed reports, the dict of a repository holds
\* for each rule of its last report the sum of the rule's durations over the
\* files of that report; the overall statistics hold for each rule the sum and
\* the number of its positive durations over all processed reports, and no rule
\* without one; the dict of every repository and the written averages are in
\* descending order, each average being that sum over that number.
C17_TotalsAndAverages ==
  /\ DOMAIN repo_to_times_per_rule = DOMAIN repoSeen
  /\ \A repo \in DOMAIN repo_to_times_per_rule :
       LET d == repo_to_times_per_rule[repo]
       IN  /\ DictKeys(d) = DOMAIN repoSeen[repo]
           /\ Len(d) = Cardinality(DictKeys(d))
           /\ \A k \in DOMAIN d : d[k][2] = repoSeen[repo][d[k][1]]
           /\ DescendingTimes(d)
  /\ LET t == rules_to_total_time_num_files
     IN  /\ DictKeys(t) = {r \in RuleIds : seen[r].count > 0}
         /\ Len(t) = Cardinality(DictKeys(t))
         /\ \A k \in DOMAIN t :
              t[k][2] = TotalTimeAndTargetNum(seen[t[k][1]].sum, seen[t[k][1]].count)
  /\ output_file.written => DescendingAverages(output_file.time_per_rule_average)
  /\ (aggRet.op = "print_repo_to_times_per_rule" /\ aggRet.exc = "none") =>
       LET a == output_file.time_per_rule_average
       IN  /\ output_file.repository_to_times_per_rule = repo_to_times_per_rule
           /\ DictKeys(a) = {r \in RuleIds : seen[r].count > 0}
           /\ Len(a) = Cardinality(DictKeys(a))
           /\ \A k \in DOMAIN a :
                a[k][2].num * seen[a[k][1]].count = seen[a[k][1]].sum * a[k][2].den

\* two reports: a repository whose two rules come out in descending order with
\* different times, and a rule whose overall total, over two files with positive
\* time, exceeds its time in that repository, a zero duration having been seen
C17_Witness ==
  /\ aggCalls = 2
  /\ aggRet.exc = "none"
  /\ \E repo \in DOMAIN repo_to_times_per_rule :
       LET d == repo_to_times_per_rule[repo]
       IN  /\ Len(d) = 2
           /\ d[1][2] > d[2][2]
           /\ d[2][2] > 0
           /\ \E k \in DOMAIN rules_to_total_time_num_files :
                /\ rules_to_total_time_num_files[k][1] = d[1][1]
                /\ rules_to_total_time_num_files[k][2].num_targets >= 2
                /\ rules_to_total_time_num_files[k][2].total_rule_time > d[1][2]
  /\ \E r \in RuleIds : seen[r].zeroes > 0

\* C20: every rule in rules_to_total_time_num_files has num_targets >= 1 and a
\* positive duration in some processed report, a rule whose durations are all
\* zero is not in it, and the averages are never a division by zero.
C20_NoDivisionByZero ==
  /\ \A k \in DOMAIN rules_to_total_time_num_files :
       /\ rules_to_total_time_num_files[k][2].num_targets >= 1
       /\ seen[rules_to_total_time_num_files[k][1]].count >= 1
  /\ \A r \in RuleIds :
       seen[r].sum = 0 => r \notin DictKeys(rules_to_total_time_num_files)
  /\ ~DividesByZero(rules_to_total_time_num_files)
  /\ aggRet.exc # "ZeroDivisionError"

\* the averages are written when one rule has only zero durations and the other
\* a positive one
C20_Witness ==
  /\ aggRet.op = "print_repo_to_times_per_rule"
  /\ aggRet.exc = "none"
  /\ Len(output_file.time_per_rule_average) = 1
  /\ \E r \in RuleIds :
       /\ seen[r].zeroes > 0
       /\ seen[r].count = 0
       /\ r \notin DictKeys(output_file.time_per_rule_average)

====
